---- MODULE Spec2Model ----
(***************************************************************************)
(* Model of the Claude Code API wrapper (main.py): an OpenAI-compatible    *)
(* HTTP surface that runs the `claude` CLI as a subprocess per request.    *)
(*                                                                         *)
(* Text is a sequence of one-character strings, so that strip, split,      *)
(* substring search, join and len are computed as Python computes them.    *)
(* The two box-drawing characters of skip_patterns are written by their    *)
(* code points, "U+2500" and "U+2502"; each is one character.              *)
(***************************************************************************)
EXTENDS Integers, Sequences, FiniteSets, TLC

\* ------------------------------------------------------------------ bounds
NumReqs == 2
MaxMsgs == 2
MaxLines == 3
TickStep == 150

\* ------------------------------------------------------- program constants
\* self.timeout = 300
timeout == 300
\* len(response) < 10
MinResponseLen == 10

\* -------------------------------------------------------- text primitives
LF == "\n"
Whitespace == {" ", "\n", "\t"}

IsWs(c) == c \in Whitespace

RECURSIVE LStrip(_)
LStrip(s) == IF s # <<>> /\ IsWs(Head(s)) THEN LStrip(Tail(s)) ELSE s

RECURSIVE RStrip(_)
RStrip(s) ==
    IF s # <<>> /\ IsWs(s[Len(s)]) THEN RStrip(SubSeq(s, 1, Len(s) - 1)) ELSE s

\* str.strip()
Strip(s) == RStrip(LStrip(s))

\* str.split('\n'): always at least one (possibly empty) piece
RECURSIVE SplitLines(_)
SplitLines(s) ==
    IF \A i \in 1..Len(s) : s[i] # LF
    THEN <<s>>
    ELSE LET k == CHOOSE i \in 1..Len(s) :
                      s[i] = LF /\ \A j \in 1..(i - 1) : s[j] # LF
         IN  <<SubSeq(s, 1, k - 1)>> \o SplitLines(SubSeq(s, k + 1, Len(s)))

\* '\n'.join(ls)
RECURSIVE JoinLines(_)
JoinLines(ls) ==
    IF ls = <<>> THEN <<>>
    ELSE IF Len(ls) = 1 THEN ls[1]
    ELSE ls[1] \o <<LF>> \o JoinLines(Tail(ls))

\* pattern in line
Contains(line, pat) ==
    \E i \in 0..(Len(line) - Len(pat)) :
        \A j \in 1..Len(pat) : line[i + j] = pat[j]

\* len(s.split()): number of maximal runs of non-whitespace characters
WordCount(s) ==
    Cardinality({i \in 1..Len(s) :
                    /\ ~IsWs(s[i])
                    /\ (i = 1 \/ IsWs(s[i - 1]))})

Digit(d) == <<"0", "1", "2", "3", "4", "5", "6", "7", "8", "9">>[d + 1]

RECURSIVE NatToText(_)
NatToText(n) ==
    IF n < 10 THEN <<Digit(n)>> ELSE NatToText(n \div 10) \o <<Digit(n % 10)>>

\* str(n) for an int
IntToText(n) == IF n < 0 THEN <<"-">> \o NatToText(0 - n) ELSE NatToText(n)

\* ------------------------------------------------- extract_claude_response
skip_patterns ==
    << <<"L","o","a","d","i","n","g"," ","p","r","o","j","e","c","t">>,
       <<"A","n","a","l","y","z","i","n","g"," ","c","o","d","e","b","a","s","e">>,
       <<"W","o","r","k","i","n","g"," ","d","i","r","e","c","t","o","r","y",":">>,
       <<"P","r","e","s","s"," ","C","t","r","l","+","C">>,
       <<"C","o","n","v","e","r","s","a","t","i","o","n"," ","s","a","v","e","d">>,
       <<"S","e","s","s","i","o","n">>,
       <<"U+2500","U+2500","U+2500">>,
       <<"U+2502">> >>

\* any(pattern in line for pattern in skip_patterns)
IsNoise(line) == \E p \in 1..Len(skip_patterns) : Contains(line, skip_patterns[p])

\* the loop appending the line as it is, untrimmed
RECURSIVE ResponseLinesNoStrip(_)
ResponseLinesNoStrip(lines) ==
    IF lines = <<>> THEN <<>>
    ELSE IF Strip(Head(lines)) = <<>> THEN ResponseLinesNoStrip(Tail(lines))
    ELSE IF IsNoise(Head(lines)) THEN ResponseLinesNoStrip(Tail(lines))
    ELSE <<Head(lines)>> \o ResponseLinesNoStrip(Tail(lines))

\* the for loop over lines, appending line.strip() to response_lines
RECURSIVE ResponseLines(_)
ResponseLines(lines) ==
    IF lines = <<>> THEN <<>>
    ELSE IF Strip(Head(lines)) = <<>> THEN ResponseLines(Tail(lines))
    ELSE IF IsNoise(Head(lines)) THEN ResponseLines(Tail(lines))
    ELSE <<Strip(Head(lines))>> \o ResponseLines(Tail(lines))

\* the fallback taken at len(response) <= 10
extract_claude_response_le(output) ==
    LET lines == SplitLines(Strip(output))
        response == JoinLines(ResponseLines(lines))
    IN  IF response = <<>> \/ Len(response) <= MinResponseLen
        THEN Strip(output)
        ELSE response

extract_claude_response(output) ==
    LET lines == SplitLines(Strip(output))
        response == JoinLines(ResponseLines(lines))
    IN  IF response = <<>> \/ Len(response) < MinResponseLen
        THEN Strip(output)
        ELSE response

\* ------------------------------------------------------ model name mapping
DefaultModel == "claude-sonnet-4-20250514"

model_mapping ==
    [m \in {"claude-sonnet-4", "claude-opus-4", "claude-opus-4.1",
            "claude-sonnet-3.7", "claude-haiku-3.5",
            "claude-sonnet-4-20250514", "claude-opus-4-20250514",
            "claude-opus-4-1-20250805", "claude-3-7-sonnet-20250219",
            "claude-3-5-haiku-20241022"} |->
        CASE m = "claude-sonnet-4" -> "claude-sonnet-4-20250514"
          [] m = "claude-opus-4" -> "claude-opus-4-20250514"
          [] m = "claude-opus-4.1" -> "claude-opus-4-1-20250805"
          [] m = "claude-sonnet-3.7" -> "claude-3-7-sonnet-20250219"
          [] m = "claude-haiku-3.5" -> "claude-3-5-haiku-20241022"
          [] OTHER -> m]

\* model_mapping.get(model, model): an unknown name passed through
ResolveModelPassThrough(model) ==
    IF model \in DOMAIN model_mapping THEN model_mapping[model] ELSE model

\* claude_model = model_mapping.get(model, "claude-sonnet-4-20250514")
ResolveModel(model) ==
    IF model \in DOMAIN model_mapping THEN model_mapping[model] ELSE DefaultModel

\* command = f'npx claude --model {claude_model} ... "{message}"'
Command(claude_model, message) ==
    [program |-> "npx claude", model |-> claude_model, message |-> message]

\* ------------------------------------------------------------ fixed texts
NoUserDetail == <<"N","o"," ","u","s","e","r"," ","m","e","s","s","a","g","e"," ","f","o","u","n","d"," ","i","n"," ","t","h","e"," ","c","o","n","v","e","r","s","a","t","i","o","n">>
CliErrorPrefix == <<"C","l","a","u","d","e"," ","C","o","d","e"," ","C","L","I"," ","e","r","r","o","r",":"," ">>
InternalErrorPrefix == <<"I","n","t","e","r","n","a","l"," ","s","e","r","v","e","r"," ","e","r","r","o","r",":"," ">>
TimedOutText == <<"C","o","m","m","a","n","d"," ","t","i","m","e","d"," ","o","u","t">>
ExitCodePrefix == <<"E","x","i","t"," ","c","o","d","e"," ">>

\* ------------------------------------------------------ run_claude_command
\* The value a call of run_claude_command ends with: a returned
\* (success, text) pair, or an exception that leaves the function.
NoResult == [outcome |-> "none", success |-> FALSE, text |-> <<>>]
Returned(success, text) == [outcome |-> "returned", success |-> success, text |-> text]
Raised(msg) == [outcome |-> "raised", success |-> FALSE, text |-> msg]

\* An exception raised by the environment inside a try block:
\* at = where it is raised ("none" when nothing is raised), msg = str(e).
NoFault == [at |-> "none", msg |-> <<>>]

\* the outer handler re-raising instead of returning
CatchAllReraise(msg) == Raised(msg)

\* except Exception as e: return False, str(e)
CatchAll(msg) == Returned(FALSE, msg)

\* error_msg = stderr.strip() if stderr else f"Exit code {return_code}"
ErrorMsg(return_code, stderr) ==
    IF stderr # <<>> THEN Strip(stderr) ELSE ExitCodePrefix \o IntToText(return_code)

\* communicate() came back within the timeout (or raised something other
\* than TimeoutExpired): the result of the call.
OnCommunicate(return_code, stdout, stderr, flt) ==
    IF flt.at = "communicate" THEN CatchAll(flt.msg)
    ELSE IF return_code = 0
         THEN IF flt.at = "extract" THEN CatchAll(flt.msg)
              ELSE Returned(TRUE, extract_claude_response(stdout))
         ELSE Returned(FALSE, ErrorMsg(return_code, stderr))

\* the timeout handler without process.kill()
OnTimeoutNoKill(flt) ==
    [state |-> "running", result |-> Returned(FALSE, TimedOutText)]

\* except subprocess.TimeoutExpired: process.kill(); return False, "Command timed out"
\* The state of the child handle and the result of the call.
OnTimeout(flt) ==
    IF flt.at = "kill"
    THEN [state |-> "running", result |-> CatchAll(flt.msg)]
    ELSE [state |-> "killed", result |-> Returned(FALSE, TimedOutText)]

\* -------------------------------------------------- create_chat_completion
\* the scan taking the last message whatever its role
LastContentAnyRole(messages) ==
    IF messages = <<>> THEN <<>> ELSE messages[Len(messages)].content

\* for msg in reversed(request.messages): if msg.role == "user": ... break
RECURSIVE LastUserContent(_)
LastUserContent(messages) ==
    IF messages = <<>> THEN <<>>
    ELSE IF messages[Len(messages)].role = "user"
         THEN messages[Len(messages)].content
         ELSE LastUserContent(SubSeq(messages, 1, Len(messages) - 1))

\* What the body of the handler's try block ends with: a returned
\* ChatCompletionResponse, a raised HTTPException, or any other exception.
NoBody == [object |-> "none"]
Return(body) ==
    [raised |-> FALSE, http |-> FALSE, status |-> 200, detail |-> <<>>, body |-> body]
HTTPException(status_code, detail) ==
    [raised |-> TRUE, http |-> TRUE, status |-> status_code, detail |-> detail,
     body |-> NoBody]
OtherException(msg) ==
    [raised |-> TRUE, http |-> FALSE, status |-> 0, detail |-> msg, body |-> NoBody]

\* len(text.split()) * 1.3, in tenths of a token
Estimate10(text) == 13 * WordCount(text)

\* int(x) of a non-negative float held in tenths
Int10(x10) == x10 \div 10

\* total_tokens = int(prompt_tokens) + int(completion_tokens)
TotalTokensSumOfInts(prompt10, completion10) == Int10(prompt10) + Int10(completion10)

\* total_tokens = int(prompt_tokens + completion_tokens)
TotalTokens(prompt10, completion10) == Int10(prompt10 + completion10)

ChatCompletionResponse(model, user_message, text) ==
    [object |-> "chat.completion",
     model |-> model,
     choices |-> << [index |-> 0, role |-> "assistant", content |-> text,
                     finish_reason |-> "stop"] >>,
     prompt_tokens |-> Int10(Estimate10(user_message)),
     completion_tokens |-> Int10(Estimate10(text)),
     total_tokens |-> TotalTokens(Estimate10(user_message), Estimate10(text))]

\* The try body after run_claude_command came back with res.
AfterRun(model, user_message, res, flt) ==
    IF res.outcome = "raised" THEN OtherException(res.text)
    ELSE IF ~res.success THEN HTTPException(500, CliErrorPrefix \o res.text)
    ELSE IF flt.at = "respond" THEN OtherException(flt.msg)
    ELSE Return(ChatCompletionResponse(model, user_message, res.text))

\* a single except Exception clause that also rewrites HTTPException
HandleExceptionsCatchAll(out) ==
    IF ~out.raised THEN [status |-> 200, detail |-> <<>>, body |-> out.body]
    ELSE [status |-> 500, detail |-> InternalErrorPrefix \o out.detail, body |-> NoBody]

\* except HTTPException: raise
\* except Exception as e: raise HTTPException(500, f"Internal server error: {str(e)}")
\* The HTTP response the client gets.
HandleExceptions(out) ==
    IF ~out.raised THEN [status |-> 200, detail |-> <<>>, body |-> out.body]
    ELSE IF out.http THEN [status |-> out.status, detail |-> out.detail, body |-> NoBody]
    ELSE [status |-> 500, detail |-> InternalErrorPrefix \o out.detail, body |-> NoBody]

\* ------------------------------------------------------------ health_check
\* success, _ = claude_interface.run_claude_command("Hi")
HealthProbe == [message |-> <<"H","i">>, model |-> DefaultModel]

\* a probe failure answered with a 500 instead of a status body
HealthResponseFailing(res) ==
    IF res.outcome = "returned" /\ res.success
    THEN [status |-> 200, detail |-> <<>>,
          body |-> [status |-> "healthy", claude_code |-> "available"]]
    ELSE [status |-> 500, detail |-> InternalErrorPrefix \o res.text, body |-> NoBody]

\* the body health_check returns: from the success flag, or from the except
\* clause when the probe raised
HealthResponse(res) ==
    IF res.outcome = "raised"
    THEN [status |-> 200, detail |-> <<>>,
          body |-> [status |-> "unhealthy", error |-> res.text]]
    ELSE IF res.success
    THEN [status |-> 200, detail |-> <<>>,
          body |-> [status |-> "healthy", claude_code |-> "available"]]
    ELSE [status |-> 200, detail |-> <<>>,
          body |-> [status |-> "degraded", claude_code |-> "unavailable"]]

\* ------------------------------------------------------- root, list_models
RootBody ==
    [message |-> "Claude Code API - OpenAI Compatible", version |-> "1.0.0",
     endpoints |-> [chat_completions |-> "/v1/chat/completions",
                    models |-> "/v1/models"]]

ModelsBody ==
    [object |-> "list",
     data |-> <<"claude-sonnet-4", "claude-opus-4", "claude-opus-4.1",
                "claude-sonnet-3.7", "claude-haiku-3.5">>]

\* ------------------------------------------------------------------- state
Reqs == 1..NumReqs

VARIABLES
    pc,        \* per request: "idle", "pending", "communicate", "done"
    request,   \* per request: the ChatCompletionRequest
    calls,     \* per request: the (message, model) arguments of each call of run_claude_command
    process,   \* per request: the Popen handle and what communicate() returned
    spawned,   \* per request: number of subprocess.Popen calls that created a child
    elapsed,   \* per request: seconds the handler has waited in communicate()
    fault,     \* per request: the exception the environment raised, if any
    result,    \* per request: what run_claude_command ended with
    response,  \* per request: the HTTP response
    running,   \* the request whose handler occupies the event loop, 0 if none
    route,     \* per request: the path it was sent to, "" before it arrives
    interface  \* claude_interface, the one ClaudeCodeInterface all handlers use

vars == <<pc, request, calls, process, spawned, elapsed, fault, result, response,
          running, route, interface>>

ChatPath == "/v1/chat/completions"
HealthPath == "/health"
RootPath == "/"
ModelsPath == "/v1/models"

NoRequest == [model |-> "", messages |-> <<>>]
NoProcess ==
    [state |-> "none", command |-> Command("", <<>>), returncode |-> 0,
     stdout |-> <<>>, stderr |-> <<>>]
NoResponse == [status |-> 0, detail |-> <<>>, body |-> NoBody]

Init ==
    /\ pc = [r \in Reqs |-> "idle"]
    /\ request = [r \in Reqs |-> NoRequest]
    /\ calls = [r \in Reqs |-> <<>>]
    /\ process = [r \in Reqs |-> NoProcess]
    /\ spawned = [r \in Reqs |-> 0]
    /\ elapsed = [r \in Reqs |-> 0]
    /\ fault = [r \in Reqs |-> NoFault]
    /\ result = [r \in Reqs |-> NoResult]
    /\ response = [r \in Reqs |-> NoResponse]
    /\ running = 0
    /\ route = [r \in Reqs |-> ""]
    /\ interface = [timeout |-> timeout]

\* ----------------------------------------------------------------- actions
\* A client posts req to /v1/chat/completions.
Arrive(r, req) ==
    /\ pc[r] = "idle"
    /\ pc' = [pc EXCEPT ![r] = "pending"]
    /\ request' = [request EXCEPT ![r] = req]
    /\ route' = [route EXCEPT ![r] = ChatPath]
    /\ UNCHANGED <<calls, process, spawned, elapsed, fault, result, response, running,
                   interface>>

\* A client sends GET path (/health, / or /v1/models).
ArriveGet(r, path) ==
    /\ pc[r] = "idle"
    /\ pc' = [pc EXCEPT ![r] = "pending"]
    /\ route' = [route EXCEPT ![r] = path]
    /\ UNCHANGED <<request, calls, process, spawned, elapsed, fault, result, response,
                   running, interface>>

\* root() and list_models(): a static body, no subprocess.
static_route(r) ==
    /\ pc[r] = "pending"
    /\ route[r] \in {RootPath, ModelsPath}
    /\ running = 0
    /\ response' = [response EXCEPT ![r] =
            [status |-> 200, detail |-> <<>>,
             body |-> IF route[r] = RootPath THEN RootBody ELSE ModelsBody]]
    /\ pc' = [pc EXCEPT ![r] = "done"]
    /\ UNCHANGED <<request, calls, process, spawned, elapsed, fault, result, running,
                   route, interface>>

\* health_check from its first line to the failed launch or to the point
\* where the probe waits in process.communicate(timeout=self.timeout).
health_check(r, flt) ==
    /\ pc[r] = "pending"
    /\ route[r] = HealthPath
    /\ running = 0
    /\ flt.at \in {"none", "launch"}
    /\ calls' = [calls EXCEPT ![r] = Append(@, HealthProbe)]
    /\ fault' = [fault EXCEPT ![r] = flt]
    /\ IF flt.at = "launch"
       THEN /\ result' = [result EXCEPT ![r] = CatchAll(flt.msg)]
            /\ response' = [response EXCEPT ![r] = HealthResponse(CatchAll(flt.msg))]
            /\ pc' = [pc EXCEPT ![r] = "done"]
            /\ UNCHANGED <<process, spawned, elapsed, running>>
       ELSE /\ process' = [process EXCEPT ![r] =
                    [NoProcess EXCEPT
                        !.state = "running",
                        !.command = Command(ResolveModel(HealthProbe.model),
                                            HealthProbe.message)]]
            /\ spawned' = [spawned EXCEPT ![r] = @ + 1]
            /\ elapsed' = [elapsed EXCEPT ![r] = 0]
            /\ pc' = [pc EXCEPT ![r] = "communicate"]
            /\ running' = r
            /\ UNCHANGED <<result, response>>
    /\ UNCHANGED <<request, route, interface>>

\* The handler from its first line to the 400, to the failed launch, or to
\* the point where it waits in process.communicate(timeout=self.timeout).
create_chat_completion(r, flt) ==
    /\ pc[r] = "pending"
    /\ route[r] = ChatPath
    /\ running = 0
    /\ flt.at \in {"none", "launch"}
    /\ LET req == request[r]
           user_message == LastUserContent(req.messages)
       IN  IF user_message = <<>>
           THEN /\ flt = NoFault
                /\ response' = [response EXCEPT ![r] =
                        HandleExceptions(HTTPException(400, NoUserDetail))]
                /\ pc' = [pc EXCEPT ![r] = "done"]
                /\ UNCHANGED <<calls, process, spawned, elapsed, fault, result, running>>
           ELSE /\ calls' = [calls EXCEPT ![r] =
                        Append(@, [message |-> user_message, model |-> req.model])]
                /\ fault' = [fault EXCEPT ![r] = flt]
                /\ IF flt.at = "launch"
                   THEN /\ result' = [result EXCEPT ![r] = CatchAll(flt.msg)]
                        /\ response' = [response EXCEPT ![r] =
                                HandleExceptions(AfterRun(req.model, user_message,
                                                          CatchAll(flt.msg), NoFault))]
                        /\ pc' = [pc EXCEPT ![r] = "done"]
                        /\ UNCHANGED <<process, spawned, elapsed, running>>
                   ELSE /\ process' = [process EXCEPT ![r] =
                                [NoProcess EXCEPT
                                    !.state = "running",
                                    !.command = Command(ResolveModel(req.model),
                                                        user_message)]]
                        /\ spawned' = [spawned EXCEPT ![r] = @ + 1]
                        /\ elapsed' = [elapsed EXCEPT ![r] = 0]
                        /\ pc' = [pc EXCEPT ![r] = "communicate"]
                        /\ running' = r
                        /\ UNCHANGED <<result, response>>
    /\ UNCHANGED <<request, route, interface>>

\* Time passes while the handler waits for the child.
Tick(r) ==
    /\ pc[r] = "communicate"
    /\ elapsed[r] < interface.timeout
    /\ elapsed' = [elapsed EXCEPT ![r] = @ + TickStep]
    /\ UNCHANGED <<pc, request, calls, process, spawned, fault, result, response, running,
                   route, interface>>

\* the handler answering with the model of the request in slot 1, as if
\* the model were kept on the shared instance
FinishSharedModel(r, res, flt) ==
    /\ result' = [result EXCEPT ![r] = res]
    /\ fault' = [fault EXCEPT ![r] = flt]
    /\ response' = [response EXCEPT ![r] =
            IF route[r] = HealthPath
            THEN HealthResponse(res)
            ELSE HandleExceptions(AfterRun(request[1].model,
                                           calls[r][Len(calls[r])].message, res, flt))]
    /\ pc' = [pc EXCEPT ![r] = "done"]
    /\ running' = 0
    /\ UNCHANGED <<request, calls, spawned, elapsed, route, interface>>

\* The rest of the handler once run_claude_command ended with res.
Finish(r, res, flt) ==
    /\ result' = [result EXCEPT ![r] = res]
    /\ fault' = [fault EXCEPT ![r] = flt]
    /\ response' = [response EXCEPT ![r] =
            IF route[r] = HealthPath
            THEN HealthResponse(res)
            ELSE HandleExceptions(AfterRun(request[r].model,
                                           calls[r][Len(calls[r])].message, res, flt))]
    /\ pc' = [pc EXCEPT ![r] = "done"]
    /\ running' = 0
    /\ UNCHANGED <<request, calls, spawned, elapsed, route, interface>>

\* communicate() comes back before the timeout: the child exited with
\* return_code, stdout and stderr (or communicate() itself raised).
communicate_returns(r, return_code, stdout, stderr, flt) ==
    /\ pc[r] = "communicate"
    /\ elapsed[r] < interface.timeout
    /\ flt.at \in {"none", "communicate", "extract", "respond"}
    /\ flt.at = "respond" => route[r] = ChatPath
    /\ flt.at \in {"extract", "respond"} => return_code = 0
    /\ flt.at = "communicate" => return_code = 0 /\ stdout = <<>> /\ stderr = <<>>
    /\ process' = [process EXCEPT ![r] =
            IF flt.at = "communicate" THEN @
            ELSE [@ EXCEPT !.state = "exited", !.returncode = return_code,
                           !.stdout = stdout, !.stderr = stderr]]
    /\ Finish(r, OnCommunicate(return_code, stdout, stderr, flt), flt)

\* communicate() raises TimeoutExpired after self.timeout seconds.
communicate_timeout(r, flt) ==
    /\ pc[r] = "communicate"
    /\ elapsed[r] >= interface.timeout
    /\ flt.at \in {"none", "kill"}
    /\ process' = [process EXCEPT ![r].state = OnTimeout(flt).state]
    /\ Finish(r, OnTimeout(flt).result, flt)

\* ------------------------------------------------------------------ inputs
SeqsUpTo(S, n) == UNION {[1..k -> S] : k \in 0..n}

Roles == {"user", "system", "assistant"}
Contents == {<<>>, <<"h","i">>, <<"a"," ","b">>}
ChatMessages == {[role |-> ro, content |-> co] : ro \in Roles, co \in Contents}
ModelNames == DOMAIN model_mapping \cup {"", "gpt-4"}

GetPaths == {HealthPath, RootPath, ModelsPath}

ExcMsgs == {<<"b","o","o","m">>}
Faults(places) == {NoFault} \cup {[at |-> a, msg |-> m] : a \in places, m \in ExcMsgs}
AllFaults == Faults({"launch", "communicate", "extract", "respond", "kill"})

\* the HTTP layer: every request shape, a few process outcomes
Requests ==
    {[model |-> mo, messages |-> ms] :
        mo \in ModelNames, ms \in SeqsUpTo(ChatMessages, MaxMsgs)}
FewReturnCodes == {0, 1}
FewStdouts == {<<>>, <<"4">>, <<"o","n","e"," ","t","w","o"," "," ","t","h","r","e","e">>}
FewStderrs == {<<>>, <<"e","r","r">>}

\* the runner: one request shape, every process outcome
RunnerRequests ==
    {[model |-> "claude-sonnet-4",
      messages |-> << [role |-> "user", content |-> <<"h","i">>] >>]}
ReturnCodes == {0, 1, 2, -9}
Lines ==
    { <<>>,
      <<"S","e","s","s","i","o","n"," ","1">>,
      <<" ","U+2502"," ","x">>,
      <<" ","o","k"," ">>,
      <<"n","i","n","e","c","h","a","r","s">>,
      <<"t","e","n","c","h","a","r","s","x","y">>,
      <<" ","h","e","l","l","o"," ","w","o","r","l","d"," ">> }
Stdouts == {JoinLines(ls) : ls \in SeqsUpTo(Lines, MaxLines)}
Stderrs == {<<>>, <<"\n">>, <<" ","e","r","r","\n">>}
Exits(codes, outs, errs) ==
    {[rc |-> c, out |-> o, err |-> e] : c \in codes, o \in outs, e \in errs}
FewExits == Exits(FewReturnCodes, FewStdouts, FewStderrs)
RunnerExits ==
    Exits({0}, Stdouts, {<<>>, <<" ","e","r","r","\n">>})
        \cup Exits(ReturnCodes \ {0}, FewStdouts, Stderrs)

\* ---------------------------------------------------------- specifications
Next ==
    \E r \in {1} :
        \/ \E req \in Requests : Arrive(r, req)
        \/ \E path \in GetPaths : ArriveGet(r, path)
        \/ static_route(r)
        \/ \E flt \in AllFaults : health_check(r, flt)
        \/ \E flt \in AllFaults : create_chat_completion(r, flt)
        \/ Tick(r)
        \/ \E x \in FewExits, flt \in AllFaults :
              communicate_returns(r, x.rc, x.out, x.err, flt)
        \/ \E flt \in AllFaults : communicate_timeout(r, flt)

Spec == Init /\ [][Next]_vars

NextRunner ==
    \E r \in {1} :
        \/ \E req \in RunnerRequests : Arrive(r, req)
        \/ \E flt \in AllFaults : create_chat_completion(r, flt)
        \/ Tick(r)
        \/ \E x \in RunnerExits, flt \in AllFaults :
              communicate_returns(r, x.rc, x.out, x.err, flt)
        \/ \E flt \in AllFaults : communicate_timeout(r, flt)

SpecRunner == Init /\ [][NextRunner]_vars

\* the server under concurrent clients: every request slot, few shapes
ConcRequests ==
    { [model |-> "claude-sonnet-4",
       messages |-> << [role |-> "system", content |-> <<"h","i">>] >>],
      [model |-> "claude-sonnet-4",
       messages |-> << [role |-> "user", content |-> <<"h","i">>] >>],
      [model |-> "claude-haiku-3.5",
       messages |-> << [role |-> "user", content |-> <<"a"," ","b">>] >>] }
ConcExits == Exits(FewReturnCodes, {<<"4">>}, {<<>>})

NextConc ==
    \E r \in Reqs :
        \/ \E req \in ConcRequests : Arrive(r, req)
        \/ \E path \in GetPaths : ArriveGet(r, path)
        \/ static_route(r)
        \/ health_check(r, NoFault)
        \/ create_chat_completion(r, NoFault)
        \/ Tick(r)
        \/ \E x \in ConcExits : communicate_returns(r, x.rc, x.out, x.err, NoFault)
        \/ communicate_timeout(r, NoFault)

SpecConc == Init /\ [][NextConc]_vars

\* ------------------------------------------------------------- properties
\* the requests sent to POST /v1/chat/completions
ChatReqs == {r \in Reqs : route[r] = ChatPath}

HasUser(messages) == \E i \in 1..Len(messages) : messages[i].role = "user"

LastUserIndex(messages) ==
    CHOOSE i \in 1..Len(messages) :
        /\ messages[i].role = "user"
        /\ \A j \in (i + 1)..Len(messages) : messages[j].role # "user"

Handled(r) == pc[r] \in {"communicate", "done"}

\* C1: a request without any user-role message is answered 400, and
\* run_claude_command is never called and no child is spawned for it.
C1_NoUserRejected ==
    \A r \in ChatReqs :
        (pc[r] # "idle" /\ ~HasUser(request[r].messages)) =>
            /\ calls[r] = <<>>
            /\ spawned[r] = 0
            /\ process[r].state = "none"
            /\ pc[r] # "communicate"
            /\ pc[r] = "done" => response[r].status = 400

C1_Witness ==
    \E r \in ChatReqs :
        /\ pc[r] = "done"
        /\ ~HasUser(request[r].messages)
        /\ \E i \in 1..Len(request[r].messages) : request[r].messages[i].content # <<>>
        /\ response[r].status = 400
        /\ calls[r] = <<>>

\* C2: a request with at least one user-role message hands exactly the
\* content of its last user-role message to run_claude_command, whatever
\* that content is (the empty string included).
C2_PromptIsLastUser ==
    \A r \in ChatReqs :
        (Handled(r) /\ HasUser(request[r].messages)) =>
            /\ Len(calls[r]) = 1
            /\ calls[r][1].message =
                   request[r].messages[LastUserIndex(request[r].messages)].content

\* C3: each outcome of the pipeline maps to one HTTP result: runner success
\* to 200 with the payload as the single choice's content, runner failure to
\* 500 carrying the diagnostic, any other exception to the generic 500, and
\* the 400 of a missing user message passes through unchanged.
C3_OutcomeToStatus ==
    \A r \in ChatReqs :
        pc[r] = "done" =>
            LET res == result[r]
                rsp == response[r]
            IN  /\ rsp.status \in {200, 400, 500}
                /\ calls[r] = <<>> =>
                       rsp = [status |-> 400, detail |-> NoUserDetail, body |-> NoBody]
                /\ (res.outcome = "returned" /\ res.success /\ fault[r].at # "respond") =>
                       /\ rsp.status = 200
                       /\ Len(rsp.body.choices) = 1
                       /\ rsp.body.choices[1].content = res.text
                /\ (res.outcome = "returned" /\ ~res.success) =>
                       /\ rsp.status = 500
                       /\ rsp.detail = CliErrorPrefix \o res.text
                /\ fault[r].at = "respond" =>
                       /\ rsp.status = 500
                       /\ rsp.detail = InternalErrorPrefix \o fault[r].msg

C3_Witness ==
    \E r \in ChatReqs :
        /\ pc[r] = "done"
        /\ fault[r].at = "respond"
        /\ result[r].success
        /\ response[r].status = 500

\* C9 (as stated): in every 200 response prompt_tokens = floor(1.3*wp),
\* completion_tokens = floor(1.3*wc) and total_tokens = prompt_tokens +
\* completion_tokens.
C9_TotalIsSumOfParts ==
    \A r \in ChatReqs :
        response[r].status = 200 =>
            LET wp == WordCount(calls[r][1].message)
                wc == WordCount(response[r].body.choices[1].content)
                b == response[r].body
            IN  /\ b.prompt_tokens = (13 * wp) \div 10
                /\ b.completion_tokens = (13 * wc) \div 10
                /\ b.total_tokens = b.prompt_tokens + b.completion_tokens

\* C9 (amended): in every 200 response prompt_tokens = floor(1.3*wp),
\* completion_tokens = floor(1.3*wc) and total_tokens = floor(1.3*wp + 1.3*wc),
\* the truncation of the untruncated sum, which is prompt_tokens +
\* completion_tokens or one more.
C9_TotalIsTruncatedSum ==
    \A r \in ChatReqs :
        response[r].status = 200 =>
            LET wp == WordCount(calls[r][1].message)
                wc == WordCount(response[r].body.choices[1].content)
                b == response[r].body
            IN  /\ b.prompt_tokens = (13 * wp) \div 10
                /\ b.completion_tokens = (13 * wc) \div 10
                /\ b.total_tokens = (13 * wp + 13 * wc) \div 10
                /\ b.total_tokens - (b.prompt_tokens + b.completion_tokens) \in {0, 1}

C9_Witness ==
    \E r \in ChatReqs :
        /\ response[r].status = 200
        /\ response[r].body.total_tokens =
               response[r].body.prompt_tokens + response[r].body.completion_tokens + 1

CanonicalIds ==
    {"claude-sonnet-4-20250514", "claude-opus-4-20250514", "claude-opus-4-1-20250805",
     "claude-3-7-sonnet-20250219", "claude-3-5-haiku-20241022"}

AliasTable ==
    { <<"claude-sonnet-4", "claude-sonnet-4-20250514">>,
      <<"claude-opus-4", "claude-opus-4-20250514">>,
      <<"claude-opus-4.1", "claude-opus-4-1-20250805">>,
      <<"claude-sonnet-3.7", "claude-3-7-sonnet-20250219">>,
      <<"claude-haiku-3.5", "claude-3-5-haiku-20241022">> }

\* C10: the model named on the command line is always one of the five
\* canonical ids: an alias gives its canonical id, a canonical id gives
\* itself, anything else (the empty string included) gives the default, and
\* resolving the resolved name changes nothing.
C10_ModelResolution ==
    \A r \in ChatReqs :
        process[r].state # "none" =>
            LET m == calls[r][1].model
                cm == process[r].command.model
            IN  /\ m = request[r].model
                /\ cm \in CanonicalIds
                /\ \A p \in AliasTable : m = p[1] => cm = p[2]
                /\ m \in CanonicalIds => cm = m
                /\ (m \notin CanonicalIds /\ \A p \in AliasTable : m # p[1]) =>
                       cm = "claude-sonnet-4-20250514"
                /\ ResolveModel(cm) = cm

C10_Witness ==
    \E r \in ChatReqs :
        /\ process[r].state = "running"
        /\ request[r].model = ""
        /\ process[r].command.model = "claude-sonnet-4-20250514"

TimedOut(r) == pc[r] = "done" /\ elapsed[r] >= timeout

Exited(r) == pc[r] = "done" /\ process[r].state = "exited"

\* C5: a child that finishes within the timeout is classified by its exit
\* code only: exit code 0 gives success with the text extracted from stdout,
\* a nonzero exit code N gives a failure whose payload is the stderr text
\* when stderr is non-empty and "Exit code N" otherwise, never an empty
\* diagnostic.
C5_ExitCodeClassification ==
    \A r \in Reqs :
        (Exited(r) /\ fault[r].at = "none") =>
            LET p == process[r]
            IN  IF p.returncode = 0
                THEN result[r] = Returned(TRUE, extract_claude_response(p.stdout))
                ELSE /\ result[r].outcome = "returned"
                     /\ ~result[r].success
                     /\ result[r].text # <<>>
                     /\ result[r].text =
                            IF p.stderr # <<>> THEN Strip(p.stderr)
                            ELSE ExitCodePrefix \o IntToText(p.returncode)

\* C6: run_claude_command never lets an exception reach its caller: every
\* call ends with a returned (success, text) pair, and an exception raised
\* at launch, in communicate, in kill or in the extraction is returned as
\* (False, message of the exception).
C6_NeverRaises ==
    \A r \in Reqs :
        /\ result[r].outcome # "raised"
        /\ (pc[r] = "done" /\ calls[r] # <<>>) => result[r].outcome = "returned"
        /\ fault[r].at \in {"launch", "communicate", "kill", "extract"} =>
               result[r] = [outcome |-> "returned", success |-> FALSE,
                            text |-> fault[r].msg]

C6_Witness ==
    \E r \in Reqs :
        /\ pc[r] = "done"
        /\ fault[r].at = "kill"
        /\ result[r].outcome = "returned"
        /\ result[r].text = fault[r].msg

CleanLine(line) == Strip(line) # <<>> /\ ~IsNoise(line)

\* stdout has exactly one clean content line, every other line is noise
OneCleanAmidNoise(out, i) ==
    LET ls == SplitLines(out)
    IN  /\ i \in 1..Len(ls)
        /\ CleanLine(ls[i])
        /\ \A j \in 1..Len(ls) : j # i => IsNoise(ls[j])

Extracted(r) == Exited(r) /\ process[r].returncode = 0 /\ result[r].success

\* C7 (as stated): stdout with exactly one clean content line among noise
\* lines gives exactly that line, trimmed, whatever its length.
C7_SingleCleanLine ==
    \A r \in Reqs :
        Extracted(r) =>
            \A i \in 1..Len(SplitLines(process[r].stdout)) :
                OneCleanAmidNoise(process[r].stdout, i) =>
                    result[r].text = Strip(SplitLines(process[r].stdout)[i])

\* C7 (amended): stdout with exactly one clean content line among noise
\* lines gives exactly that line, trimmed, when the trimmed line has at
\* least 10 characters; a shorter line gives the whole trimmed stdout.
C7_SingleCleanLineLongEnough ==
    \A r \in Reqs :
        Extracted(r) =>
            \A i \in 1..Len(SplitLines(process[r].stdout)) :
                OneCleanAmidNoise(process[r].stdout, i) =>
                    LET line == Strip(SplitLines(process[r].stdout)[i])
                    IN  result[r].text =
                            IF Len(line) >= 10 THEN line ELSE Strip(process[r].stdout)

C7_Witness ==
    \E r \in Reqs :
        /\ Extracted(r)
        /\ \E i \in 1..Len(SplitLines(process[r].stdout)) :
               /\ OneCleanAmidNoise(process[r].stdout, i)
               /\ Len(SplitLines(process[r].stdout)) >= 2
               /\ SplitLines(process[r].stdout)[i] # Strip(SplitLines(process[r].stdout)[i])
               /\ result[r].text = Strip(SplitLines(process[r].stdout)[i])

\* the non-blank, noise-free lines of out, each trimmed, joined by newlines
FilteredText(out) ==
    LET kept == SelectSeq(SplitLines(out), CleanLine)
    IN  JoinLines([i \in 1..Len(kept) |-> Strip(kept[i])])

\* C8: the extraction returns the non-blank noise-free lines, trimmed, in
\* order and joined by newlines when that text has at least 10 characters,
\* and the whole trimmed input otherwise (so also for noise-only input).
C8_FilterOrFallback ==
    \A r \in Reqs :
        Extracted(r) =>
            LET out == process[r].stdout
                f == FilteredText(out)
            IN  /\ result[r].text = IF Len(f) >= 10 THEN f ELSE Strip(out)
                /\ (\A i \in 1..Len(SplitLines(out)) : IsNoise(SplitLines(out)[i])) =>
                       result[r].text = Strip(out)

C8_Witness ==
    \E r \in Reqs :
        /\ Extracted(r)
        /\ Len(SelectSeq(SplitLines(process[r].stdout), CleanLine)) >= 2
        /\ \E i \in 1..Len(SplitLines(process[r].stdout)) :
               IsNoise(SplitLines(process[r].stdout)[i])
        /\ result[r].text = FilteredText(process[r].stdout)
        /\ result[r].text # Strip(process[r].stdout)

HealthReqs == {r \in Reqs : route[r] = HealthPath}

\* C11: GET /health runs exactly one probe, run_claude_command("Hi") with
\* the default model, and always answers with a status body: "healthy" when
\* the probe returned success, "degraded" when it returned failure,
\* "unhealthy" with the message when the probe raised.
C11_HealthStatus ==
    \A r \in HealthReqs :
        /\ Len(calls[r]) <= 1
        /\ spawned[r] <= 1
        /\ Handled(r) =>
               calls[r] = << [message |-> <<"H","i">>,
                              model |-> "claude-sonnet-4-20250514"] >>
        /\ pc[r] = "done" =>
               /\ response[r].status = 200
               /\ response[r].body.status \in {"healthy", "degraded", "unhealthy"}
               /\ (result[r].outcome = "returned" /\ result[r].success) <=>
                      response[r].body.status = "healthy"
               /\ (result[r].outcome = "returned" /\ ~result[r].success) <=>
                      response[r].body.status = "degraded"
               /\ result[r].outcome = "raised" <=>
                      response[r].body.status = "unhealthy"
               /\ response[r].body.status = "unhealthy" =>
                      response[r].body.error = result[r].text

C11_Witness ==
    \E r \in HealthReqs :
        /\ pc[r] = "done"
        /\ process[r].state = "exited"
        /\ process[r].returncode # 0
        /\ response[r].status = 200
        /\ response[r].body.status = "degraded"

\* the event loop starts the handler of request r
StartHandler(r) ==
    \/ static_route(r)
    \/ health_check(r, NoFault)
    \/ create_chat_completion(r, NoFault)

\* C12: while one request waits on its subprocess, any other request that
\* has arrived can be handled: a completion or health request can start its
\* own subprocess next to the first, and GET / and GET /v1/models are
\* answered.
C12_ConcurrentHandling ==
    \A a \in Reqs, b \in Reqs :
        (a # b /\ pc[a] = "communicate" /\ pc[b] = "pending") =>
            ENABLED StartHandler(b)

\* everything the model keeps for request r
Own(r) ==
    <<pc[r], route[r], request[r], calls[r], process[r], spawned[r], elapsed[r],
      fault[r], result[r], response[r]>>

\* the response of r is the one its own path, messages, model and child give
OwnResponse(r) ==
    LET rsp == response[r]
        p == process[r]
        prompt == LastUserContent(request[r].messages)
    IN  CASE route[r] = RootPath -> rsp.status = 200 /\ rsp.body = RootBody
          [] route[r] = ModelsPath -> rsp.status = 200 /\ rsp.body = ModelsBody
          [] route[r] = HealthPath ->
                /\ rsp.status = 200
                /\ rsp.body.status =
                       IF p.state = "exited" /\ p.returncode = 0
                       THEN "healthy" ELSE "degraded"
          [] route[r] = ChatPath ->
                IF prompt = <<>>
                THEN rsp.status = 400 /\ p.state = "none"
                ELSE /\ p.command = Command(ResolveModel(request[r].model), prompt)
                     /\ IF p.state = "exited" /\ p.returncode = 0
                        THEN /\ rsp.status = 200
                             /\ rsp.body.model = request[r].model
                             /\ rsp.body.choices[1].content =
                                    extract_claude_response(p.stdout)
                             /\ rsp.body.prompt_tokens = Int10(Estimate10(prompt))
                        ELSE /\ rsp.status = 500
                             /\ rsp.detail = CliErrorPrefix \o
                                    (IF p.state = "killed" THEN TimedOutText
                                     ELSE ErrorMsg(p.returncode, p.stderr))

\* C13: requests do not interfere: no step writes the shared
\* claude_interface, every step changes the state of one request only,
\* each request calls run_claude_command and spawns a child at most once,
\* and a finished request's response is the one its own messages, model and
\* child determine.
C13_NoInterference ==
    [][ /\ interface' = interface
        /\ \E r \in Reqs : \A o \in Reqs \ {r} : Own(o)' = Own(o)
        /\ \A r \in Reqs :
               /\ spawned'[r] <= 1
               /\ Len(calls'[r]) <= 1
               /\ pc'[r] = "done" => OwnResponse(r)' ]_vars

C13_Witness ==
    \E a \in Reqs, b \in Reqs :
        /\ a # b
        /\ pc[a] = "done" /\ pc[b] = "done"
        /\ route[a] = ChatPath /\ route[b] = ChatPath
        /\ request[a].model # request[b].model
        /\ response[a].status = 200 /\ response[b].status = 200
        /\ response[a].body.model # response[b].body.model
        /\ spawned[a] = 1 /\ spawned[b] = 1

====
